---------------------------- MODULE Spec2Model ----------------------------
(***************************************************************************)
(* A model of the Sudoku engine: the validator (isValidMove,               *)
(* findConflicts, isBoardValid, isBoardSolved), the backtracking solver     *)
(* (solveSudoku, isSolvable), the uniqueness check (hasUniqueSolution) and  *)
(* the generator (generateCompleteSudoku, removeCellsImproved,              *)
(* generateSymmetricPuzzle).                                                *)
(*                                                                         *)
(* A board is a function row -> col -> cell over 0..8, a cell is a digit    *)
(* 1..9 or Null.  The recursive searches are run one loop step at a time:   *)
(* `stack` holds one frame per active recursive call, `pc` the position of  *)
(* the innermost call.                                                      *)
(***************************************************************************)
EXTENDS Integers, Sequences, FiniteSets, TLC

VARIABLES
    op,             \* the exported function that was called ("none" before the call)
    pc,             \* "idle" | "call" | "loop" | "filled" | "pass1" | "pass2" | "done"
    board,          \* the grid under search: the caller's argument, or the generator's board
    testBoard,      \* the copy isSolvable and hasUniqueSolution make of their argument
    stack,          \* frames of the active recursive calls, innermost last
    ret,            \* the value returned to the caller once pc = "done"
    solutionCount,  \* hasUniqueSolution's counter
    input,          \* history: the argument grid as it was at the call
    wrote,          \* history: number of digits the search has written into its grid
    tape,           \* the outcomes Math.random() will produce, repeated cyclically
    rng,            \* number of Math.random() calls made so far
    difficulty,     \* the generator's difficulty argument
    targetEmpty,    \* the number of cells the generator set out to empty
    puzzle,         \* the generator's puzzle: the copy of the complete board it empties
    boxRemovals,    \* boxRemovals[boxRow][boxCol]: the generator's count per box
    totalRemoved,   \* the generator's count of removed cells (totalRemoved / removed)
    cellsByBox,     \* removeCellsImproved: the shuffled cells of each box, boxes numbered 0..8
    shuffledCells,  \* removeCellsImproved: the shuffled cells left for the second pass
    complete,       \* the round trip: the complete grid the puzzle was cut from
    hint,           \* what getNextHint returns: { row, col, value } or null (NoHint)
    attempts,       \* generateBalancedPuzzle's attempts
    calls,          \* history: the calls of generateSudokuPuzzle made by generateBalancedPuzzle
    boardState,     \* SudokuBoard: the board state of the last render
    fixedCells,     \* SudokuBoard: the fixedCells state of the last render
    isGenerating,   \* SudokuBoard: the isGenerating state
    timers,         \* the pending setTimeout callbacks, in the order they will fire
    handler,        \* the handler of SudokuBoard that is waiting for the engine
    events,         \* history: number of user events so far
    loaded,         \* history: the puzzle last loaded, the empty board after Clear All
    accepted        \* history: the last accepted hint, the board before and after it

vars == <<op, pc, board, testBoard, stack, ret, solutionCount, input, wrote,
          tape, rng, difficulty, targetEmpty, puzzle, boxRemovals, totalRemoved,
          cellsByBox, shuffledCells, complete, hint, attempts, calls,
          boardState, fixedCells, isGenerating, timers, handler, events, loaded,
          accepted>>

----------------------------------------------------------------------------
(* The grid                                                                *)

\* the board is 9 x 9 ...
SIZE == 9
\* ... made of 3 x 3 boxes
BOX == 3
\* an empty cell (null)
Null == 0

Idx == 0 .. (SIZE - 1)
BoxIdx == 0 .. (BOX - 1)
Digits == 1 .. SIZE
Cells == Idx \X Idx

\* Array(9).fill(null).map(() => Array(9).fill(null))
EmptyBoard == [row \in Idx |-> [col \in Idx |-> Null]]

\* Array(3).fill(null).map(() => Array(3).fill(0))
NoRemovals == [boxRow \in BoxIdx |-> [boxCol \in BoxIdx |-> 0]]

\* board[row][col] = value on a copy
SetCell(b, row, col, value) == [b EXCEPT ![row][col] = value]

Min(S) == CHOOSE x \in S : \A y \in S : x <= y

----------------------------------------------------------------------------
(* sudokuValidator                                                         *)

\* isValidMove without its column loop
isValidMove_NoColumn(b, row, col, num) ==
    /\ \A x \in Idx : ~(x # col /\ b[row][x] = num)
    /\ \A i \in BoxIdx : \A j \in BoxIdx :
          LET currentRow == (row - (row % BOX)) + i
              currentCol == (col - (col % BOX)) + j
          IN  (currentRow = row /\ currentCol = col)
              \/ b[currentRow][currentCol] # num

\* isValidMove without its box loops
isValidMove_NoBox(b, row, col, num) ==
    /\ \A x \in Idx : ~(x # col /\ b[row][x] = num)
    /\ \A x \in Idx : ~(x # row /\ b[x][col] = num)

\* isValidMove with a row loop that does not leave out the cell itself
isValidMove_CountsSelf(b, row, col, num) ==
    /\ \A x \in Idx : b[row][x] # num
    /\ isValidMove_NoBox(b, row, col, num)
    /\ isValidMove_NoColumn(b, row, col, num)

\* true iff no other cell of the row, the column or the box holds num
isValidMove(b, row, col, num) ==
    LET boxStartRow == row - (row % BOX)
        boxStartCol == col - (col % BOX)
    IN  /\ \A x \in Idx : ~(x # col /\ b[row][x] = num)
        /\ \A x \in Idx : ~(x # row /\ b[x][col] = num)
        /\ \A i \in BoxIdx : \A j \in BoxIdx :
              LET currentRow == boxStartRow + i
                  currentCol == boxStartCol + j
              IN  (currentRow = row /\ currentCol = col)
                  \/ b[currentRow][currentCol] # num

\* findConflicts leaving each of its loops at the first conflict it finds
findConflicts_FirstOnly(b, row, col) ==
    LET value == b[row][col]
        inRow == {x \in Idx : x # col /\ b[row][x] = value}
        inCol == {x \in Idx : x # row /\ b[x][col] = value}
    IN  IF value = Null THEN <<>>
        ELSE (IF inRow = {} THEN <<>> ELSE <<(<<row, Min(inRow)>>)>>)
             \o (IF inCol = {} THEN <<>> ELSE <<(<<Min(inCol), col>>)>>)

\* the conflicts of one cell, in the order the three loops push them
findConflicts(b, row, col) ==
    LET value == b[row][col]
        boxStartRow == row - (row % BOX)
        boxStartCol == col - (col % BOX)
        inRow == SelectSeq([k \in 1 .. SIZE |-> <<row, k - 1>>],
                           LAMBDA p : p[2] # col /\ b[row][p[2]] = value)
        inCol == SelectSeq([k \in 1 .. SIZE |-> <<k - 1, col>>],
                           LAMBDA p : p[1] # row /\ b[p[1]][col] = value)
        inBox == SelectSeq([k \in 1 .. (BOX * BOX) |->
                               <<boxStartRow + ((k - 1) \div BOX),
                                 boxStartCol + ((k - 1) % BOX)>>],
                           LAMBDA p : ~(p[1] = row /\ p[2] = col)
                                      /\ b[p[1]][p[2]] = value)
    IN  IF value = Null THEN <<>> ELSE inRow \o inCol \o inBox

\* the key `${row}-${col}` of a cell in the map of findAllConflicts
Key(row, col) == ToString(row) \o "-" \o ToString(col)

\* the map findAllConflicts returns: for every non-empty cell with conflicts,
\* in row-major order, set(key, conflicts); a later set of a key replaces an
\* earlier one
findAllConflicts(b) ==
    LET hit == {c \in Cells : b[c[1]][c[2]] # Null
                              /\ Len(findConflicts(b, c[1], c[2])) > 0}
        last(k) == CHOOSE c \in hit :
                      /\ Key(c[1], c[2]) = k
                      /\ \A d \in hit : Key(d[1], d[2]) = k =>
                            d[1] * SIZE + d[2] <= c[1] * SIZE + c[2]
    IN  [k \in {Key(c[1], c[2]) : c \in hit} |->
            findConflicts(b, last(k)[1], last(k)[2])]

\* no non-empty cell has a conflict
isBoardValid(b) ==
    \A row \in Idx : \A col \in Idx :
        b[row][col] # Null => Len(findConflicts(b, row, col)) = 0

\* completely filled and valid
isBoardSolved(b) ==
    /\ \A row \in Idx : \A col \in Idx : b[row][col] # Null
    /\ isBoardValid(b)

----------------------------------------------------------------------------
(* The search loops shared by solveSudoku and hasUniqueSolution's solve    *)

\* the cell the two nested for loops stop at: the row-major first empty cell
EmptyCells(b) == {c \in Cells : b[c[1]][c[2]] = Null}
HasEmpty(b) == EmptyCells(b) # {}
FirstEmpty(b) ==
    LET k == Min({c[1] * SIZE + c[2] : c \in EmptyCells(b)})
    IN  <<k \div SIZE, k % SIZE>>

\* the digits num..9 the for loop would still place at (row, col)
ValidFrom(b, row, col, num) ==
    {n \in Digits : n >= num /\ isValidMove(b, row, col, n)}


----------------------------------------------------------------------------
(* Input grids                                                             *)

\* a solved grid the inputs are cut from
BaseGrid ==
    [row \in Idx |-> [col \in Idx |->
        (((row % BOX) * BOX + (row \div BOX) + col) % SIZE) + 1]]

\* b with the cells of S emptied
Blanked(b, S) ==
    [row \in Idx |-> [col \in Idx |->
        IF <<row, col>> \in S THEN Null ELSE b[row][col]]]

\* at most MaxBlank cells of Window are emptied ...
MaxBlank == 3
Window == {<<0, 0>>, <<0, 1>>, <<3, 0>>, <<3, 1>>, <<0, 3>>, <<3, 3>>}
\* ... and at most one cell of EditCells is overwritten with any digit
EditCells == {<<0, 0>>, <<3, 1>>}
Edits == {<<c, d>> : c \in EditCells, d \in Digits}

ShallowGrids ==
    LET cut == {Blanked(BaseGrid, S) :
                    S \in {T \in SUBSET Window : Cardinality(T) <= MaxBlank}}
    IN  cut \cup {SetCell(b, e[1][1], e[1][2], e[2]) : b \in cut, e \in Edits}

\* the empty grid, and the grid with its lower half emptied
Suffix(k) == {c \in Cells : c[1] * SIZE + c[2] >= k}
DeepGrids ==
    { Blanked(BaseGrid, Suffix(0)),
      Blanked(BaseGrid, Suffix(45)),
      SetCell(Blanked(BaseGrid, Suffix(45)), 8, 8, 7) }

InputGrids == ShallowGrids \cup DeepGrids

----------------------------------------------------------------------------
(* sudokuSolver: solveSudoku, isSolvable                                   *)

SolveOps == {"solveSudoku", "isSolvable"}
\* ... and getNextHint, which also runs solveSudoku on a copy
SolveCallers == SolveOps \cup {"getNextHint"}

\* null, where a hint is expected
NoHint == [row |-> 0 - 1, col |-> 0 - 1, value |-> Null]

\* where the caller of solveSudoku stands once the outermost call is back
AfterSolve == IF op = "getNextHint" THEN "solved" ELSE "done"

\* the array the running search works on: solveSudoku's own argument, or the
\* copy isSolvable made of it
Grid == IF op = "solveSudoku" THEN board ELSE testBoard
Store(g) ==
    IF op = "solveSudoku"
    THEN board' = g /\ UNCHANGED testBoard
    ELSE testBoard' = g /\ UNCHANGED board

Top == stack[Len(stack)]
Caller == stack[Len(stack) - 1]
Pop == SubSeq(stack, 1, Len(stack) - 1)
\* the frames once the innermost call has returned false: the caller's loop
\* moves on to its next num
Resume == [Pop EXCEPT ![Len(stack) - 1].num = @ + 1]

\* what the callers of the engine keep between two calls
\* the state of the SudokuBoard component
uiVars == <<boardState, fixedCells, isGenerating, timers, handler, events, loaded,
           accepted>>

callerVars == <<complete, hint, attempts, calls, uiVars>>

\* useState's initial values: an empty board, no fixed cell, nothing pending
NoFixed == [row \in Idx |-> [col \in Idx |-> FALSE]]
NoAccept == [hint |-> NoHint, before |-> EmptyBoard, after |-> EmptyBoard]
UIStart ==
    /\ boardState = EmptyBoard
    /\ fixedCells = NoFixed
    /\ isGenerating = FALSE
    /\ timers = <<>>
    /\ handler = "none"
    /\ events = 0
    /\ loaded = EmptyBoard
    /\ accepted = NoAccept

genVars == <<tape, rng, difficulty, targetEmpty, puzzle, boxRemovals, totalRemoved,
            cellsByBox, shuffledCells, callerVars>>

\* solveSudoku(board) is called
SolveSudoku ==
    /\ pc = "idle"
    /\ op' = "solveSudoku"
    /\ pc' = "call"
    /\ UNCHANGED <<board, testBoard, stack, ret, solutionCount, input, wrote, genVars>>

\* isSolvable(board) is called: it copies the board and solves the copy
IsSolvable ==
    /\ pc = "idle"
    /\ op' = "isSolvable"
    /\ testBoard' = board
    /\ pc' = "call"
    /\ UNCHANGED <<board, stack, ret, solutionCount, input, wrote, genVars>>

\* a call finds no empty cell and returns true, and so does every caller
SolveFullWhen == op \in SolveCallers /\ pc = "call" /\ ~HasEmpty(Grid)
SolveFull ==
    /\ SolveFullWhen
    /\ ret' = TRUE
    /\ stack' = <<>>
    /\ pc' = AfterSolve
    /\ UNCHANGED <<op, board, testBoard, solutionCount, input, wrote, genVars>>

\* a call stops at the first empty cell and starts its loop over num = 1..9
SolveCellWhen == op \in SolveCallers /\ pc = "call" /\ HasEmpty(Grid)
SolveCell ==
    /\ SolveCellWhen
    /\ LET cell == FirstEmpty(Grid)
       IN  stack' = Append(stack, [row |-> cell[1], col |-> cell[2], num |-> 1])
    /\ pc' = "loop"
    /\ UNCHANGED <<op, board, testBoard, ret, solutionCount, input, wrote, genVars>>

\* the loop reaches the next num that isValidMove accepts, places it and recurses
SolvePlaceWhen ==
    /\ op \in SolveCallers /\ pc = "loop"
    /\ ValidFrom(Grid, Top.row, Top.col, Top.num) # {}
SolvePlace ==
    /\ SolvePlaceWhen
    /\ LET num == Min(ValidFrom(Grid, Top.row, Top.col, Top.num))
       IN  /\ Store(SetCell(Grid, Top.row, Top.col, num))
           /\ stack' = [stack EXCEPT ![Len(stack)].num = num]
    /\ wrote' = wrote + 1
    /\ pc' = "call"
    /\ UNCHANGED <<op, ret, solutionCount, input, genVars>>

\* a reset that leaves the digit in the cell
Undo_Keeps(g, row, col) == g

\* board[row][col] = null: the digit a failed recursion was tried with is taken back
Undo(g, row, col) == SetCell(g, row, col, Null)

\* the loop runs out of digits: the call returns false; its caller, if any,
\* empties the cell it had filled and goes on with its own loop
SolveFailWhen ==
    /\ op \in SolveCallers /\ pc = "loop"
    /\ ValidFrom(Grid, Top.row, Top.col, Top.num) = {}
SolveFail ==
    /\ SolveFailWhen
    /\ IF Len(stack) = 1
       THEN /\ ret' = FALSE
            /\ stack' = <<>>
            /\ pc' = AfterSolve
            /\ UNCHANGED <<board, testBoard>>
       ELSE /\ Store(Undo(Grid, Caller.row, Caller.col))
            /\ stack' = Resume
            /\ pc' = "loop"
            /\ UNCHANGED ret
    /\ UNCHANGED <<op, solutionCount, input, wrote, genVars>>

----------------------------------------------------------------------------
(* The solver's specification                                              *)

Init ==
    /\ board \in InputGrids
    /\ input = board
    /\ testBoard = EmptyBoard
    /\ op = "none"
    /\ pc = "idle"
    /\ stack = <<>>
    /\ ret = FALSE
    /\ solutionCount = 0
    /\ wrote = 0
    /\ tape = <<>>
    /\ rng = 0
    /\ difficulty = "none"
    /\ targetEmpty = 0
    /\ puzzle = EmptyBoard
    /\ boxRemovals = NoRemovals
    /\ totalRemoved = 0
    /\ cellsByBox = <<>>
    /\ shuffledCells = <<>>
    /\ complete = EmptyBoard
    /\ hint = NoHint
    /\ attempts = 0
    /\ calls = 0
    /\ UIStart

Next ==
    \/ SolveSudoku
    \/ IsSolvable
    \/ SolveFull
    \/ SolveCell
    \/ SolvePlace
    \/ SolveFail

Spec == Init /\ [][Next]_vars

----------------------------------------------------------------------------
(* sudokuSolver: getNextHint                                               *)

\* getNextHint(board) is called: it copies the board and solves the copy
GetNextHint ==
    /\ pc = "idle"
    /\ op' = "getNextHint"
    /\ testBoard' = board
    /\ pc' = "call"
    /\ UNCHANGED <<board, stack, ret, solutionCount, input, wrote, genVars>>

\* the scan for a hint that picks the last cell instead of the first
Hint_LastCell(b, solvedBoard) ==
    LET open == {c \in Cells : b[c[1]][c[2]] = Null /\ solvedBoard[c[1]][c[2]] # Null}
        k == 0 - Min({0 - (c[1] * SIZE + c[2]) : c \in open})
    IN  IF open = {} THEN NoHint
        ELSE [row |-> k \div SIZE, col |-> k % SIZE,
              value |-> solvedBoard[k \div SIZE][k % SIZE]]

\* the row-major first cell that is empty in board and filled in solvedBoard,
\* with solvedBoard's value; null if there is none
Hint(b, solvedBoard) ==
    LET open == {c \in Cells : b[c[1]][c[2]] = Null /\ solvedBoard[c[1]][c[2]] # Null}
        k == Min({c[1] * SIZE + c[2] : c \in open})
    IN  IF open = {} THEN NoHint
        ELSE [row |-> k \div SIZE, col |-> k % SIZE,
              value |-> solvedBoard[k \div SIZE][k % SIZE]]

\* solveSudoku is back: null if it failed, otherwise the scan for the hint
HintReturn ==
    /\ op = "getNextHint" /\ pc = "solved"
    /\ hint' = IF ~ret THEN NoHint ELSE Hint(board, testBoard)
    /\ pc' = "done"
    /\ UNCHANGED <<op, board, testBoard, stack, ret, solutionCount, input, wrote,
                   tape, rng, difficulty, targetEmpty, puzzle, boxRemovals,
                   totalRemoved, cellsByBox, shuffledCells, complete, attempts, calls,
                   uiVars>>

HintNext ==
    \/ GetNextHint
    \/ SolveFull
    \/ SolveCell
    \/ SolvePlace
    \/ SolveFail
    \/ HintReturn

HintSpec == Init /\ [][HintNext]_vars

----------------------------------------------------------------------------
(* The validator's specification                                           *)

\* isValidMove(board, row, col, num) is called and returns
IsValidMove ==
    /\ pc = "idle"
    /\ \E row \in Idx : \E col \in Idx : \E num \in Digits :
          /\ stack' = <<[row |-> row, col |-> col, num |-> num]>>
          /\ ret' = isValidMove(board, row, col, num)
    /\ op' = "isValidMove"
    /\ pc' = "done"
    /\ UNCHANGED <<board, testBoard, solutionCount, input, wrote, genVars>>

ValidNext ==
    \/ IsValidMove

ValidSpec == Init /\ [][ValidNext]_vars

\* findAllConflicts(board) is called and returns its map
FindAllConflicts ==
    /\ pc = "idle"
    /\ op' = "findAllConflicts"
    /\ ret' = findAllConflicts(board)
    /\ pc' = "done"
    /\ UNCHANGED <<board, testBoard, stack, solutionCount, input, wrote, genVars>>

\* isBoardValid(board) is called and returns
IsBoardValid ==
    /\ pc = "idle"
    /\ op' = "isBoardValid"
    /\ ret' = isBoardValid(board)
    /\ pc' = "done"
    /\ UNCHANGED <<board, testBoard, stack, solutionCount, input, wrote, genVars>>

ConflictNext ==
    \/ FindAllConflicts
    \/ IsBoardValid

ConflictSpec == Init /\ [][ConflictNext]_vars

----------------------------------------------------------------------------
(* sudokuGenerator: hasUniqueSolution                                      *)

\* hasUniqueSolution(puzzle) is called: it copies the puzzle, sets its counter
\* to 0 and calls solve()
HasUniqueSolution ==
    /\ pc = "idle"
    /\ op' = "hasUniqueSolution"
    /\ testBoard' = board
    /\ solutionCount' = 0
    /\ pc' = "call"
    /\ UNCHANGED <<board, stack, ret, input, wrote, genVars>>

\* solve() ending its search at the first solution it counts
UniqueFull_StopsAtFirst ==
    /\ op = "hasUniqueSolution" /\ pc = "call" /\ ~HasEmpty(testBoard)
    /\ solutionCount' = solutionCount + 1
    /\ ret' = (solutionCount' = 1)
    /\ stack' = <<>>
    /\ pc' = "done"
    /\ UNCHANGED <<op, board, testBoard, input, wrote, genVars>>

\* a call of solve() finds no empty cell: it counts a solution and returns
\* solutionCount >= 2.  True is handed up by every caller and ends the search;
\* on false the caller empties the cell it had filled and goes on with its
\* loop.  Once the outermost call is back, hasUniqueSolution returns
\* solutionCount === 1
UniqueFullWhen == op = "hasUniqueSolution" /\ pc = "call" /\ ~HasEmpty(testBoard)
UniqueFull ==
    /\ UniqueFullWhen
    /\ solutionCount' = solutionCount + 1
    /\ IF solutionCount' >= 2 \/ Len(stack) = 0
       THEN /\ ret' = (solutionCount' = 1)
            /\ stack' = <<>>
            /\ pc' = "done"
            /\ UNCHANGED testBoard
       ELSE /\ testBoard' = SetCell(testBoard, Top.row, Top.col, Null)
            /\ stack' = [stack EXCEPT ![Len(stack)].num = @ + 1]
            /\ pc' = "loop"
            /\ UNCHANGED ret
    /\ UNCHANGED <<op, board, input, wrote, genVars>>

\* a call of solve() stops at the first empty cell and starts its loop
UniqueCellWhen == op = "hasUniqueSolution" /\ pc = "call" /\ HasEmpty(testBoard)
UniqueCell ==
    /\ UniqueCellWhen
    /\ LET cell == FirstEmpty(testBoard)
       IN  stack' = Append(stack, [row |-> cell[1], col |-> cell[2], num |-> 1])
    /\ pc' = "loop"
    /\ UNCHANGED <<op, board, testBoard, ret, solutionCount, input, wrote, genVars>>

\* the loop reaches the next num that isValidMove accepts, places it and recurses
UniquePlaceWhen ==
    /\ op = "hasUniqueSolution" /\ pc = "loop"
    /\ ValidFrom(testBoard, Top.row, Top.col, Top.num) # {}
UniquePlace ==
    /\ UniquePlaceWhen
    /\ LET num == Min(ValidFrom(testBoard, Top.row, Top.col, Top.num))
       IN  /\ testBoard' = SetCell(testBoard, Top.row, Top.col, num)
           /\ stack' = [stack EXCEPT ![Len(stack)].num = num]
    /\ wrote' = wrote + 1
    /\ pc' = "call"
    /\ UNCHANGED <<op, board, ret, solutionCount, input, genVars>>

\* the loop runs out of digits: the call returns false
UniqueFailWhen ==
    /\ op = "hasUniqueSolution" /\ pc = "loop"
    /\ ValidFrom(testBoard, Top.row, Top.col, Top.num) = {}
UniqueFail ==
    /\ UniqueFailWhen
    /\ IF Len(stack) = 1
       THEN /\ ret' = (solutionCount = 1)
            /\ stack' = <<>>
            /\ pc' = "done"
            /\ UNCHANGED testBoard
       ELSE /\ testBoard' = SetCell(testBoard, Caller.row, Caller.col, Null)
            /\ stack' = Resume
            /\ pc' = "loop"
            /\ UNCHANGED ret
    /\ UNCHANGED <<op, board, solutionCount, input, wrote, genVars>>

UniqueNext ==
    \/ HasUniqueSolution
    \/ UniqueFull
    \/ UniqueCell
    \/ UniquePlace
    \/ UniqueFail

UniqueSpec == Init /\ [][UniqueNext]_vars


----------------------------------------------------------------------------
(* sudokuGenerator: Math.random and shuffleArray                           *)

\* Math.random() returns tape[k] / RandDenom at its k-th call; a tape holds
\* TapeLen outcomes (the least, the middle and the greatest) and repeats
TapeLen == 3
RandDenom == 6
RandVals == {0, RandDenom \div 2, RandDenom - 1}
Tapes == [1 .. TapeLen -> RandVals]

\* Math.floor(Math.random() * n) at the call number k (counted from 0)
RandomBelow(n, k) == (tape[(k % Len(tape)) + 1] * n) \div RandDenom

Swap(a, i, j) == [a EXCEPT ![i] = a[j], ![j] = a[i]]

\* the iterations i = from, from - 1, ..., to of shuffleArray's loop (i is
\* 0-based), the first of them drawing at call k; a run of several iterations
\* is its upper half followed by its lower half (on the array the upper half
\* left, which is as long as a)
RECURSIVE ShuffleFrom(_, _, _, _)
ShuffleFrom(a, from, to, k) ==
    IF from < to THEN a
    ELSE IF from = to THEN Swap(a, from + 1, RandomBelow(from + 1, k) + 1)
    ELSE LET mid == (from + to) \div 2
             upper == ShuffleFrom(a, from, mid + 1, k)
         IN  IF Len(upper) # Len(a) THEN upper
             ELSE ShuffleFrom(upper, mid, to, k + (from - mid))

\* shuffleArray(array), the first of its Len(array) - 1 draws being call k
shuffleArray(array, k) == ShuffleFrom(array, Len(array) - 1, 1, k)
Draws(array) == IF Len(array) = 0 THEN 0 ELSE Len(array) - 1

----------------------------------------------------------------------------
(* sudokuGenerator: generateCompleteSudoku                                 *)

Difficulties == {"easy", "medium", "hard", "expert"}
GenOps == {"generateCompleteSudoku", "generateSudokuPuzzle", "generateSymmetricPuzzle",
           "generateBalancedPuzzle"}
\* the generators that hand the complete board to removeCellsImproved
BoxOps == {"generateSudokuPuzzle", "generateBalancedPuzzle"}

\* [1, 2, 3, 4, 5, 6, 7, 8, 9]
OneToNine == [k \in 1 .. SIZE |-> k]

\* the frame of fillBoard(row, col): its shuffled numbers and its place in them
FillFrame(row, col, k) ==
    [row |-> row, col |-> col, numbers |-> shuffleArray(OneToNine, k), at |-> 1]

nextRow(row, col) == IF col = SIZE - 1 THEN row + 1 ELSE row
nextCol(row, col) == IF col = SIZE - 1 THEN 0 ELSE col + 1

\* the places at..9 of the frame's numbers that isValidMove accepts
ValidAt(b, f) ==
    {k \in f.at .. SIZE : isValidMove(b, f.row, f.col, f.numbers[k])}

\* where a generator stands once generateCompleteSudoku has returned
AfterFill == IF op = "generateCompleteSudoku" THEN "done" ELSE "filled"

\* a generator is called: it makes the empty board and calls fillBoard(0, 0)
Generate(name, level) ==
    /\ pc = "idle"
    /\ op' = name
    /\ difficulty' = level
    /\ board' = EmptyBoard
    /\ stack' = <<FillFrame(0, 0, rng)>>
    /\ rng' = rng + Draws(OneToNine)
    /\ pc' = "loop"
    /\ UNCHANGED <<testBoard, ret, solutionCount, input, wrote,
                   tape, targetEmpty, puzzle, boxRemovals, totalRemoved,
                   cellsByBox, shuffledCells, callerVars>>

GenerateCompleteSudoku == Generate("generateCompleteSudoku", "none")
GenerateSudokuPuzzle ==
    \E level \in Difficulties : Generate("generateSudokuPuzzle", level)
GenerateSymmetricPuzzle ==
    \E level \in Difficulties : Generate("generateSymmetricPuzzle", level)

\* fillBoard's loop reaches the next of its numbers that isValidMove accepts,
\* places it and calls fillBoard for the next cell: past the last cell that
\* call returns true and so does every caller, otherwise it shuffles its own
\* numbers and starts its loop
FillPlaceWhen == op \in GenOps /\ pc = "loop" /\ ValidAt(board, Top) # {}
FillPlace ==
    /\ FillPlaceWhen
    /\ LET k == Min(ValidAt(board, Top))
           row == nextRow(Top.row, Top.col)
           col == nextCol(Top.row, Top.col)
       IN  /\ board' = SetCell(board, Top.row, Top.col, Top.numbers[k])
           /\ IF row = SIZE
              THEN /\ stack' = <<>>
                   /\ pc' = AfterFill
                   /\ UNCHANGED rng
              ELSE /\ stack' = Append([stack EXCEPT ![Len(stack)].at = k],
                                      FillFrame(row, col, rng))
                   /\ rng' = rng + Draws(OneToNine)
                   /\ pc' = "loop"
    /\ UNCHANGED <<op, testBoard, ret, solutionCount, input, wrote,
                   tape, difficulty, targetEmpty, puzzle, boxRemovals, totalRemoved,
                   cellsByBox, shuffledCells, callerVars>>

\* fillBoard's loop runs out of numbers: the call returns false; its caller,
\* if any, empties the cell it had filled and goes on with its own loop
FillFailWhen == op \in GenOps /\ pc = "loop" /\ ValidAt(board, Top) = {}
FillFail ==
    /\ FillFailWhen
    /\ IF Len(stack) = 1
       THEN /\ stack' = <<>>
            /\ pc' = AfterFill
            /\ UNCHANGED board
       ELSE /\ board' = SetCell(board, Caller.row, Caller.col, Null)
            /\ stack' = [Pop EXCEPT ![Len(stack) - 1].at = @ + 1]
            /\ pc' = "loop"
    /\ UNCHANGED <<op, testBoard, ret, solutionCount, input, wrote, genVars>>

----------------------------------------------------------------------------
(* sudokuGenerator: removeCellsImproved, generateSudokuPuzzle              *)

\* the number of filled cells of one box, as countFilledInBox counts them
countFilledInBox(b, boxRow, boxCol) ==
    Cardinality({c \in BoxIdx \X BoxIdx :
                    b[boxRow * BOX + c[1]][boxCol * BOX + c[2]] # Null})

\* getBoxConstraints that bounds no box
getBoxConstraints_Loose(level) == [min |-> 0, max |-> BOX * BOX]

\* clues per box: { min, max }
getBoxConstraints(level) ==
    CASE level = "easy" -> [min |-> 3, max |-> 6]
      [] level = "medium" -> [min |-> 2, max |-> 5]
      [] level = "hard" -> [min |-> 1, max |-> 4]
      [] level = "expert" -> [min |-> 0, max |-> 3]
      [] OTHER -> [min |-> 3, max |-> 6]

\* clues in the whole puzzle: { min, max }
getCluesRange(level) ==
    CASE level = "easy" -> [min |-> 36, max |-> 41]
      [] level = "medium" -> [min |-> 27, max |-> 32]
      [] level = "hard" -> [min |-> 22, max |-> 27]
      [] level = "expert" -> [min |-> 17, max |-> 22]
      [] OTHER -> [min |-> 36, max |-> 41]

\* targetEmpty = 81 - targetClues, targetClues drawn at call k
TargetEmpty(level, k) ==
    LET range == getCluesRange(level)
        targetClues == range.min + RandomBelow(range.max - range.min + 1, k)
    IN  (SIZE * SIZE) - targetClues

\* the boxes in the order of the boxRow and boxCol loops, numbered from 0
NumBoxes == BOX * BOX
BoxRowOf(n) == n \div BOX
BoxColOf(n) == n % BOX

\* cellsByBox[boxRow][boxCol] as the row and col loops fill it
CellsOfBox(boxRow, boxCol) ==
    [k \in 1 .. (BOX * BOX) |->
        <<boxRow * BOX + ((k - 1) \div BOX), boxCol * BOX + ((k - 1) % BOX)>>]

\* cellsByBox after the shuffle of every box, the first draw being call k
ShuffledBoxes(k) ==
    [n \in 0 .. (NumBoxes - 1) |->
        shuffleArray(CellsOfBox(BoxRowOf(n), BoxColOf(n)),
                     k + n * Draws(OneToNine))]

Bump(counts, boxRow, boxCol) == [counts EXCEPT ![boxRow][boxCol] = @ + 1]

\* the first pass over one box: cells[i] for i < toRemove and i < cells.length
RECURSIVE FirstPassBox(_, _, _, _, _)
FirstPassBox(st, cells, n, i, toRemove) ==
    IF ~(i < toRemove /\ i < Len(cells)) THEN st
    ELSE FirstPassBox(
            [puzzle |-> SetCell(st.puzzle, cells[i + 1][1], cells[i + 1][2], Null),
             boxRemovals |-> Bump(st.boxRemovals, BoxRowOf(n), BoxColOf(n)),
             totalRemoved |-> st.totalRemoved + 1],
            cells, n, i + 1, toRemove)

\* the first pass over the boxes from, ..., to in this order; a run of several
\* boxes is its first half (which never lowers totalRemoved) followed by its
\* second half
RECURSIVE FirstPass(_, _, _, _, _)
FirstPass(st, boxes, from, to, toRemove) ==
    IF from > to THEN st
    ELSE IF from = to THEN FirstPassBox(st, boxes[from], from, 0, toRemove)
    ELSE LET mid == (from + to) \div 2
             first == FirstPass(st, boxes, from, mid, toRemove)
         IN  IF first.totalRemoved < st.totalRemoved THEN st
             ELSE FirstPass(first, boxes, mid + 1, to, toRemove)

\* allCells: of every box the cells from index minRemovedPerBox on, each with its box
RECURSIVE AllCells(_, _, _)
AllCells(boxes, n, from) ==
    IF n >= NumBoxes THEN <<>>
    ELSE [k \in 1 .. (IF Len(boxes[n]) > from THEN Len(boxes[n]) - from ELSE 0) |->
             <<boxes[n][from + k][1], boxes[n][from + k][2], BoxRowOf(n), BoxColOf(n)>>]
         \o AllCells(boxes, n + 1, from)

\* the second pass over the cells from, ..., to of shuffledCells in this order;
\* a run of several cells is its first half followed by its second half.  Once
\* totalRemoved has reached the target the loop has left (break) and no later
\* cell changes anything; a cell whose box is at its cap is passed (continue)
RECURSIVE SecondPass(_, _, _, _, _, _)
SecondPass(st, cells, from, to, target, maxRemoved) ==
    IF from > to THEN st
    ELSE IF from = to
    THEN LET row == cells[from][1]
             col == cells[from][2]
             boxRow == cells[from][3]
             boxCol == cells[from][4]
         IN  IF st.totalRemoved >= target THEN st
             ELSE IF st.boxRemovals[boxRow][boxCol] >= maxRemoved THEN st
             ELSE [puzzle |-> SetCell(st.puzzle, row, col, Null),
                   boxRemovals |-> Bump(st.boxRemovals, boxRow, boxCol),
                   totalRemoved |-> st.totalRemoved + 1]
    ELSE LET mid == (from + to) \div 2
             first == SecondPass(st, cells, from, mid, target, maxRemoved)
         IN  IF first.totalRemoved >= target THEN first
             ELSE SecondPass(first, cells, mid + 1, to, target, maxRemoved)

\* maxRemovedPerBox taken from the wrong end of the range, and no first pass
maxRemovedPerBox_FromMax(level) == (BOX * BOX) - getBoxConstraints(level).max
minRemovedPerBox_None(level) == 0

\* 9 - minPerBox and 9 - maxPerBox
maxRemovedPerBox(level) == (BOX * BOX) - getBoxConstraints(level).min
minRemovedPerBox(level) == (BOX * BOX) - getBoxConstraints(level).max

\* const maxAttempts = 10
maxAttempts == 10

\* where the caller of generateSudokuPuzzle stands once it has the puzzle:
\* generateBalancedPuzzle checks the puzzle of an attempt and returns the
\* puzzle of its fallback call as it is
AfterRemove ==
    IF op = "generateBalancedPuzzle" /\ attempts < maxAttempts THEN "check" ELSE "done"

\* generateSudokuPuzzle hands the complete board to removeCellsImproved, which
\* copies it, draws its target and shuffles the cells of every box
RemoveStart ==
    /\ op \in BoxOps /\ pc = "filled"
    /\ puzzle' = board
    /\ targetEmpty' = TargetEmpty(difficulty, rng)
    /\ boxRemovals' = NoRemovals
    /\ totalRemoved' = 0
    /\ cellsByBox' = ShuffledBoxes(rng + 1)
    /\ rng' = rng + 1 + NumBoxes * Draws(OneToNine)
    /\ pc' = "pass1"
    /\ UNCHANGED <<op, board, testBoard, stack, ret, solutionCount, input, wrote,
                   tape, difficulty, shuffledCells, callerVars>>

\* the first pass, then allCells is gathered and shuffled
RemoveFirstPass ==
    /\ op \in BoxOps /\ pc = "pass1"
    /\ LET st == FirstPass([puzzle |-> puzzle, boxRemovals |-> boxRemovals,
                            totalRemoved |-> totalRemoved],
                           cellsByBox, 0, NumBoxes - 1, minRemovedPerBox(difficulty))
           allCells == AllCells(cellsByBox, 0, minRemovedPerBox(difficulty))
       IN  /\ puzzle' = st.puzzle
           /\ boxRemovals' = st.boxRemovals
           /\ totalRemoved' = st.totalRemoved
           /\ shuffledCells' = shuffleArray(allCells, rng)
           /\ rng' = rng + Draws(allCells)
    /\ pc' = "pass2"
    /\ UNCHANGED <<op, board, testBoard, stack, ret, solutionCount, input, wrote,
                   tape, difficulty, targetEmpty, cellsByBox, callerVars>>

\* the second pass; removeCellsImproved returns puzzle
RemoveSecondPass ==
    /\ op \in BoxOps /\ pc = "pass2"
    /\ LET st == SecondPass([puzzle |-> puzzle, boxRemovals |-> boxRemovals,
                             totalRemoved |-> totalRemoved],
                            shuffledCells, 1, Len(shuffledCells), targetEmpty,
                            maxRemovedPerBox(difficulty))
       IN  /\ puzzle' = st.puzzle
           /\ boxRemovals' = st.boxRemovals
           /\ totalRemoved' = st.totalRemoved
    /\ pc' = AfterRemove
    /\ UNCHANGED <<op, board, testBoard, stack, ret, solutionCount, input, wrote,
                   tape, rng, difficulty, targetEmpty, cellsByBox, shuffledCells,
                   callerVars>>

----------------------------------------------------------------------------
(* sudokuGenerator: generateSymmetricPuzzle                                *)

\* the positions of the upper half, the centre left out, in row and col order
Positions ==
    LET upper == {c \in Cells : c[1] < 4 \/ (c[1] = 4 /\ c[2] < 4)}
    IN  [k \in 1 .. Cardinality(upper) |->
            CHOOSE c \in upper :
                Cardinality({d \in upper : d[1] * SIZE + d[2] < c[1] * SIZE + c[2]}) = k - 1]

\* the loop over shuffledPositions emptying (row, col) but not its mirror cell
RECURSIVE SymmetricPass_OneSided(_, _, _, _, _, _)
SymmetricPass_OneSided(st, positions, from, to, cellsToRemove, maxRemoved) ==
    IF from > to THEN st
    ELSE IF from = to
    THEN LET row == positions[from][1]
             col == positions[from][2]
         IN  IF st.totalRemoved >= cellsToRemove THEN st
             ELSE IF \/ st.boxRemovals[row \div BOX][col \div BOX] >= maxRemoved
                     \/ st.boxRemovals[(8 - row) \div BOX][(8 - col) \div BOX] >= maxRemoved
             THEN st
             ELSE [puzzle |-> SetCell(st.puzzle, row, col, Null),
                   boxRemovals |-> Bump(Bump(st.boxRemovals, row \div BOX, col \div BOX),
                                        (8 - row) \div BOX, (8 - col) \div BOX),
                   totalRemoved |-> st.totalRemoved + 2]
    ELSE LET mid == (from + to) \div 2
             first == SymmetricPass_OneSided(st, positions, from, mid,
                                             cellsToRemove, maxRemoved)
         IN  IF first.totalRemoved >= cellsToRemove THEN first
             ELSE SymmetricPass_OneSided(first, positions, mid + 1, to,
                                         cellsToRemove, maxRemoved)

\* the loop over the positions from, ..., to of shuffledPositions in this
\* order; a run of several positions is its first half followed by its second
\* half.  Once removed has reached cellsToRemove the loop has left (break); a
\* pair with a box at its cap is passed (continue)
RECURSIVE SymmetricPass(_, _, _, _, _, _)
SymmetricPass(st, positions, from, to, cellsToRemove, maxRemoved) ==
    IF from > to THEN st
    ELSE IF from = to
    THEN LET row == positions[from][1]
             col == positions[from][2]
             boxRow1 == row \div BOX
             boxCol1 == col \div BOX
             boxRow2 == (8 - row) \div BOX
             boxCol2 == (8 - col) \div BOX
         IN  IF st.totalRemoved >= cellsToRemove THEN st
             ELSE IF \/ st.boxRemovals[boxRow1][boxCol1] >= maxRemoved
                     \/ st.boxRemovals[boxRow2][boxCol2] >= maxRemoved
             THEN st
             ELSE [puzzle |-> SetCell(SetCell(st.puzzle, row, col, Null),
                                      8 - row, 8 - col, Null),
                   boxRemovals |-> Bump(Bump(st.boxRemovals, boxRow1, boxCol1),
                                        boxRow2, boxCol2),
                   totalRemoved |-> st.totalRemoved + 2]
    ELSE LET mid == (from + to) \div 2
             first == SymmetricPass(st, positions, from, mid, cellsToRemove, maxRemoved)
         IN  IF first.totalRemoved >= cellsToRemove THEN first
             ELSE SymmetricPass(first, positions, mid + 1, to, cellsToRemove, maxRemoved)

\* generateSymmetricPuzzle's removal from the complete board b, first draw at call k
symmetricRemoval(b, level, k) ==
    LET target == TargetEmpty(level, k)
        cellsToRemove == IF target % 2 = 0 THEN target ELSE target - 1
        shuffledPositions == shuffleArray(Positions, k + 1)
        pass == SymmetricPass([puzzle |-> b, boxRemovals |-> NoRemovals, totalRemoved |-> 0],
                              shuffledPositions, 1, Len(shuffledPositions), cellsToRemove,
                              maxRemovedPerBox(level))
    IN  [puzzle |-> pass.puzzle,
         boxRemovals |-> pass.boxRemovals,
         totalRemoved |-> pass.totalRemoved,
         targetEmpty |-> cellsToRemove,
         rng |-> k + 1 + Draws(Positions)]

\* generateSymmetricPuzzle once the complete board is there
RemoveSymmetric ==
    /\ op = "generateSymmetricPuzzle" /\ pc = "filled"
    /\ LET r == symmetricRemoval(board, difficulty, rng)
       IN  /\ puzzle' = r.puzzle
           /\ boxRemovals' = r.boxRemovals
           /\ totalRemoved' = r.totalRemoved
           /\ targetEmpty' = r.targetEmpty
           /\ rng' = r.rng
    /\ pc' = "done"
    /\ UNCHANGED <<op, board, testBoard, stack, ret, solutionCount, input, wrote,
                   tape, difficulty, cellsByBox, shuffledCells, callerVars>>

GenInit ==
    /\ board = EmptyBoard
    /\ input = EmptyBoard
    /\ testBoard = EmptyBoard
    /\ op = "none"
    /\ pc = "idle"
    /\ stack = <<>>
    /\ ret = FALSE
    /\ solutionCount = 0
    /\ wrote = 0
    /\ tape \in Tapes
    /\ rng = 0
    /\ difficulty = "none"
    /\ targetEmpty = 0
    /\ puzzle = EmptyBoard
    /\ boxRemovals = NoRemovals
    /\ totalRemoved = 0
    /\ cellsByBox = <<>>
    /\ shuffledCells = <<>>
    /\ complete = EmptyBoard
    /\ hint = NoHint
    /\ attempts = 0
    /\ calls = 0
    /\ UIStart

FillNext ==
    \/ GenerateCompleteSudoku
    \/ FillPlace
    \/ FillFail

FillSpec == GenInit /\ [][FillNext]_vars

BoxNext ==
    \/ GenerateSudokuPuzzle
    \/ FillPlace
    \/ FillFail
    \/ RemoveStart
    \/ RemoveFirstPass
    \/ RemoveSecondPass

BoxSpec == GenInit /\ [][BoxNext]_vars

SymNext ==
    \/ GenerateSymmetricPuzzle
    \/ FillPlace
    \/ FillFail
    \/ RemoveSymmetric

SymSpec == GenInit /\ [][SymNext]_vars

----------------------------------------------------------------------------
(* sudokuGenerator: generateBalancedPuzzle                                 *)

\* generateBalancedPuzzle(difficulty) is called: attempts = 0
GenerateBalancedPuzzle ==
    /\ pc = "idle"
    /\ op' = "generateBalancedPuzzle"
    /\ \E level \in Difficulties : difficulty' = level
    /\ attempts' = 0
    /\ pc' = "attempt"
    /\ UNCHANGED <<board, testBoard, stack, ret, solutionCount, input, wrote,
                   tape, rng, targetEmpty, puzzle, boxRemovals, totalRemoved,
                   cellsByBox, shuffledCells, complete, hint, calls, uiVars>>

\* generateSudokuPuzzle(difficulty) is called, inside the while loop as long
\* as attempts < maxAttempts and after it for the fallback: it calls
\* generateCompleteSudoku, which makes the empty board and calls fillBoard(0, 0)
BalancedCall ==
    /\ op = "generateBalancedPuzzle" /\ pc = "attempt"
    /\ calls' = calls + 1
    /\ board' = EmptyBoard
    /\ stack' = <<FillFrame(0, 0, rng)>>
    /\ rng' = rng + Draws(OneToNine)
    /\ pc' = "loop"
    /\ UNCHANGED <<op, testBoard, ret, solutionCount, input, wrote,
                   tape, difficulty, targetEmpty, puzzle, boxRemovals, totalRemoved,
                   cellsByBox, shuffledCells, complete, hint, attempts, uiVars>>

\* some box of the puzzle is completely filled
hasCompleteBox(p) ==
    \E boxRow \in BoxIdx : \E boxCol \in BoxIdx : countFilledInBox(p, boxRow, boxCol) = 9

\* the puzzle of an attempt is checked: it is returned if no box is complete,
\* otherwise attempts++ and the loop goes on
BalancedCheck ==
    /\ op = "generateBalancedPuzzle" /\ pc = "check"
    /\ IF ~hasCompleteBox(puzzle)
       THEN pc' = "done" /\ UNCHANGED attempts
       ELSE pc' = "attempt" /\ attempts' = attempts + 1
    /\ UNCHANGED <<op, board, testBoard, stack, ret, solutionCount, input, wrote,
                   tape, rng, difficulty, targetEmpty, puzzle, boxRemovals, totalRemoved,
                   cellsByBox, shuffledCells, complete, hint, calls, uiVars>>

BalancedNext ==
    \/ GenerateBalancedPuzzle
    \/ BalancedCall
    \/ FillPlace
    \/ FillFail
    \/ RemoveStart
    \/ RemoveFirstPass
    \/ RemoveSecondPass
    \/ BalancedCheck

BalancedSpec == GenInit /\ [][BalancedNext]_vars

----------------------------------------------------------------------------
(* SudokuBoard: the component's handlers and their timer callbacks.        *)
(* A handler runs to its end before the next event or timer is served; one *)
(* that calls the solver or the generator waits for the engine's steps.    *)
(* A handler reads board and fixedCells of the render it was created in.   *)
(* moveCount, errorCount, conflicts, selectedCell, isSolved and difficulty *)
(* are displayed only: no handler's effect on board or fixedCells depends  *)
(* on them.                                                                *)

\* the user events of one run
MaxEvents == 2
\* the cells the user edits and the values typed into them
UIEditCells == {<<0, 0>>, <<0, 1>>, <<4, 4>>}
UIValues == {Null, 5}
\* the levels of the New Puzzle buttons that are pressed
UILevels == {"easy"}

Quiet == handler = "none" /\ pc = "idle"
UserEvent == Quiet /\ events < MaxEvents /\ events' = events + 1

\* the engine's variables once a handler's call is over: its locals are gone
\* (the tape is cyclic: only the position in it is kept)
EngineIdle ==
    /\ op' = "none"
    /\ pc' = "idle"
    /\ board' = EmptyBoard
    /\ testBoard' = EmptyBoard
    /\ input' = EmptyBoard
    /\ stack' = <<>>
    /\ ret' = FALSE
    /\ wrote' = 0
    /\ rng' = rng % TapeLen
    /\ difficulty' = "none"
    /\ targetEmpty' = 0
    /\ puzzle' = EmptyBoard
    /\ boxRemovals' = NoRemovals
    /\ totalRemoved' = 0
    /\ hint' = NoHint
    /\ UNCHANGED <<solutionCount, tape, cellsByBox, shuffledCells, complete,
                   attempts, calls>>

engineVars == <<op, pc, board, testBoard, stack, ret, solutionCount, input, wrote,
               tape, rng, difficulty, targetEmpty, puzzle, boxRemovals, totalRemoved,
               cellsByBox, shuffledCells, complete, hint, attempts, calls>>

\* the board handleCellChange sets, from the board b and the mask fixed of the
\* render it was created in; current is the board of the latest render, kept
\* when the cell is fixed
handleCellChange(b, fixed, current, row, col, value) ==
    IF fixed[row][col] THEN current ELSE SetCell(b, row, col, value)

\* the user types into a cell: the cell's onChange is the handleCellChange of
\* the latest render
HandleCellChange ==
    /\ UserEvent
    /\ \E cell \in UIEditCells : \E value \in UIValues :
          boardState' = handleCellChange(boardState, fixedCells, boardState,
                                         cell[1], cell[2], value)
    /\ UNCHANGED <<engineVars, fixedCells, isGenerating, timers, handler, loaded,
                   accepted>>

GenerateTimer(level) ==
    [kind |-> "generate", level |-> level, hint |-> NoHint,
     board |-> EmptyBoard, fixedCells |-> NoFixed]
HintTimer(h, b, fixed) ==
    [kind |-> "hint", level |-> "none", hint |-> h, board |-> b, fixedCells |-> fixed]

\* a New Puzzle button (disabled while isGenerating): generatePuzzle(level)
\* sets isGenerating and leaves the generation to a timer
GeneratePuzzle ==
    /\ UserEvent
    /\ ~isGenerating
    /\ isGenerating' = TRUE
    /\ \E level \in UILevels : timers' = Append(timers, GenerateTimer(level))
    /\ UNCHANGED <<engineVars, boardState, fixedCells, handler, loaded, accepted>>

\* generatePuzzle's timer fires: generateSymmetricPuzzle(level) is called
GeneratePuzzleTimeout ==
    /\ Quiet
    /\ timers # <<>> /\ Head(timers).kind = "generate"
    /\ timers' = Tail(timers)
    /\ handler' = "generatePuzzle"
    /\ op' = "generateSymmetricPuzzle"
    /\ difficulty' = Head(timers).level
    /\ board' = EmptyBoard
    /\ stack' = <<FillFrame(0, 0, rng)>>
    /\ rng' = rng + Draws(OneToNine)
    /\ pc' = "loop"
    /\ UNCHANGED <<testBoard, ret, solutionCount, input, wrote,
                   tape, targetEmpty, puzzle, boxRemovals, totalRemoved,
                   cellsByBox, shuffledCells, complete, hint, attempts, calls,
                   boardState, fixedCells, isGenerating, events, loaded, accepted>>

\* the mask loadPuzzle derives: every non-empty cell of the puzzle is fixed
FixedOf(p) == [row \in Idx |-> [col \in Idx |-> p[row][col] # Null]]

\* the puzzle is back: loadPuzzle(puzzle), setIsGenerating(false)
LoadPuzzle ==
    /\ handler = "generatePuzzle" /\ pc = "done"
    /\ boardState' = puzzle
    /\ fixedCells' = FixedOf(puzzle)
    /\ loaded' = puzzle
    /\ isGenerating' = FALSE
    /\ handler' = "none"
    /\ EngineIdle
    /\ UNCHANGED <<timers, events, accepted>>

\* Smart Hint: getNextHint(board) is called
GetSmartHint ==
    /\ UserEvent
    /\ handler' = "getSmartHint"
    /\ op' = "getNextHint"
    /\ board' = boardState
    /\ input' = boardState
    /\ testBoard' = boardState
    /\ pc' = "call"
    /\ UNCHANGED <<stack, ret, solutionCount, wrote, tape, rng, difficulty,
                   targetEmpty, puzzle, boxRemovals, totalRemoved, cellsByBox,
                   shuffledCells, complete, hint, attempts, calls>>
    /\ UNCHANGED <<boardState, fixedCells, isGenerating, timers, loaded, accepted>>

\* getNextHint is back: with a hint, a timer is set whose callback holds the
\* hint and the handleCellChange of this render
GetSmartHintReturn ==
    /\ handler = "getSmartHint" /\ pc = "done"
    /\ timers' = IF hint = NoHint THEN timers
                 ELSE Append(timers, HintTimer(hint, boardState, fixedCells))
    /\ handler' = "none"
    /\ EngineIdle
    /\ UNCHANGED <<boardState, fixedCells, isGenerating, events, loaded, accepted>>

\* the hint's timer fires: window.confirm, and on OK
\* handleCellChange(hint.row, hint.col, hint.value) of the render that set the timer
GetSmartHintTimeout ==
    /\ Quiet
    /\ timers # <<>> /\ Head(timers).kind = "hint"
    /\ timers' = Tail(timers)
    /\ \E response \in BOOLEAN :
          IF response
          THEN LET t == Head(timers)
                   newBoard == handleCellChange(t.board, t.fixedCells, boardState,
                                                t.hint.row, t.hint.col, t.hint.value)
               IN  /\ boardState' = newBoard
                   /\ accepted' = [hint |-> t.hint, before |-> boardState,
                                   after |-> newBoard]
          ELSE UNCHANGED <<boardState, accepted>>
    /\ UNCHANGED <<engineVars, fixedCells, isGenerating, handler, events, loaded>>

\* Instant Solve: solveSudoku(boardCopy) is called on a copy of the board
SolvePuzzle ==
    /\ UserEvent
    /\ handler' = "solvePuzzle"
    /\ op' = "solveSudoku"
    /\ board' = boardState
    /\ input' = boardState
    /\ pc' = "call"
    /\ UNCHANGED <<testBoard, stack, ret, solutionCount, wrote, tape, rng, difficulty,
                   targetEmpty, puzzle, boxRemovals, totalRemoved, cellsByBox,
                   shuffledCells, complete, hint, attempts, calls>>
    /\ UNCHANGED <<boardState, fixedCells, isGenerating, timers, loaded, accepted>>

\* solveSudoku is back: the solved copy becomes the board if it returned true
SolvePuzzleReturn ==
    /\ handler = "solvePuzzle" /\ pc = "done"
    /\ boardState' = IF ret THEN board ELSE boardState
    /\ handler' = "none"
    /\ EngineIdle
    /\ UNCHANGED <<fixedCells, isGenerating, timers, events, loaded, accepted>>

\* Reset: every cell that is not fixed is emptied
ClearUserEntries ==
    /\ UserEvent
    /\ boardState' = [row \in Idx |-> [col \in Idx |->
                         IF fixedCells[row][col] THEN boardState[row][col] ELSE Null]]
    /\ UNCHANGED <<engineVars, fixedCells, isGenerating, timers, handler, loaded,
                   accepted>>

\* Clear All: the board is emptied and no cell is fixed
ClearBoard ==
    /\ UserEvent
    /\ boardState' = EmptyBoard
    /\ fixedCells' = NoFixed
    /\ loaded' = EmptyBoard
    /\ UNCHANGED <<engineVars, isGenerating, timers, handler, accepted>>

UINext ==
    \/ HandleCellChange
    \/ GeneratePuzzle
    \/ GeneratePuzzleTimeout
    \/ FillPlace
    \/ FillFail
    \/ RemoveSymmetric
    \/ LoadPuzzle
    \/ GetSmartHint
    \/ SolveFull
    \/ SolveCell
    \/ SolvePlace
    \/ SolveFail
    \/ HintReturn
    \/ GetSmartHintReturn
    \/ GetSmartHintTimeout
    \/ SolvePuzzle
    \/ SolvePuzzleReturn
    \/ ClearUserEntries
    \/ ClearBoard

UISpec == GenInit /\ [][UINext]_vars

----------------------------------------------------------------------------
(* The round trip: generate, solve the puzzle, check its uniqueness        *)

\* the difficulties the round trip is run at
RoundLevels == {"easy"}

RoundGenerate ==
    \E level \in RoundLevels :
        \/ Generate("generateSudokuPuzzle", level)
        \/ Generate("generateSymmetricPuzzle", level)

\* the caller keeps the complete grid and calls solveSudoku on the puzzle
RoundSolve ==
    /\ op \in {"generateSudokuPuzzle", "generateSymmetricPuzzle"} /\ pc = "done"
    /\ complete' = board
    /\ board' = puzzle
    /\ input' = puzzle
    /\ op' = "solveSudoku"
    /\ pc' = "call"
    /\ UNCHANGED <<testBoard, stack, ret, solutionCount, wrote, tape, rng, difficulty,
                   targetEmpty, puzzle, boxRemovals, totalRemoved, cellsByBox,
                   shuffledCells, hint, attempts, calls, uiVars>>

\* the caller then calls hasUniqueSolution on the puzzle as it was generated
RoundUnique ==
    /\ op = "solveSudoku" /\ pc = "done"
    /\ op' = "hasUniqueSolution"
    /\ testBoard' = puzzle
    /\ solutionCount' = 0
    /\ pc' = "call"
    /\ UNCHANGED <<board, stack, ret, input, wrote, genVars>>

RoundNext ==
    \/ RoundGenerate
    \/ FillPlace
    \/ FillFail
    \/ RemoveStart
    \/ RemoveFirstPass
    \/ RemoveSecondPass
    \/ RemoveSymmetric
    \/ RoundSolve
    \/ SolveFull
    \/ SolveCell
    \/ SolvePlace
    \/ SolveFail
    \/ RoundUnique
    \/ UniqueFull
    \/ UniqueCell
    \/ UniquePlace
    \/ UniqueFail

RoundSpec == GenInit /\ [][RoundNext]_vars


----------------------------------------------------------------------------
(* What a solution is, stated without the search                           *)

SameUnit(c, d) ==
    \/ c[1] = d[1]
    \/ c[2] = d[2]
    \/ (c[1] \div BOX = d[1] \div BOX /\ c[2] \div BOX = d[2] \div BOX)

PeersOf == [c \in Cells |-> {d \in Cells : d # c /\ SameUnit(c, d)}]

\* no two non-empty cells of one row, column or box are equal
NoDuplicate(g) ==
    \A c \in Cells :
        g[c[1]][c[2]] # Null =>
            \A d \in PeersOf[c] : g[d[1]][d[2]] # g[c[1]][c[2]]

IsFull(g) == \A c \in Cells : g[c[1]][c[2]] \in Digits

\* s fills every non-empty cell of g as g does
Extends(s, g) ==
    \A c \in Cells : g[c[1]][c[2]] # Null => s[c[1]][c[2]] = g[c[1]][c[2]]

\* s is a valid completion of g
IsCompletion(s, g) == IsFull(s) /\ NoDuplicate(s) /\ Extends(s, g)

\* the digits no peer of c holds
Free(g, c) == Digits \ {g[d[1]][d[2]] : d \in PeersOf[c]}

\* an empty cell with the fewest free digits
Tightest(g) ==
    CHOOSE c \in EmptyCells(g) :
        \A d \in EmptyCells(g) :
            Cardinality(Free(g, c)) <= Cardinality(Free(g, d))

\* some assignment of the empty cells of a duplicate-free g keeps it duplicate-free
RECURSIVE Completable(_)
Completable(g) ==
    IF EmptyCells(g) = {} THEN TRUE
    ELSE LET c == Tightest(g)
         IN  \E n \in Free(g, c) : Completable(SetCell(g, c[1], c[2], n))

\* g has a valid completion (BaseGrid is one of every grid cut from it)
HasCompletion(g) ==
    /\ NoDuplicate(g)
    /\ (IsCompletion(BaseGrid, g) \/ Completable(g))

\* BaseGrid with its last two rows exchanged: a second solved grid
OtherGrid ==
    [row \in Idx |->
        IF row = SIZE - 2 THEN BaseGrid[SIZE - 1]
        ELSE IF row = SIZE - 1 THEN BaseGrid[SIZE - 2]
        ELSE BaseGrid[row]]

\* the valid completions of a duplicate-free g
RECURSIVE Completions(_)
Completions(g) ==
    IF EmptyCells(g) = {} THEN {g}
    ELSE LET c == Tightest(g)
         IN  UNION {Completions(SetCell(g, c[1], c[2], n)) : n \in Free(g, c)}

\* g has exactly one valid completion (a grid both BaseGrid and OtherGrid
\* complete has two)
HasOneCompletion(g) ==
    /\ NoDuplicate(g)
    /\ ~(IsCompletion(BaseGrid, g) /\ IsCompletion(OtherGrid, g))
    /\ Cardinality(Completions(g)) = 1

----------------------------------------------------------------------------
(* Progress of the searches                                               *)

\* the path of a search: the digit (or the place among the shuffled numbers)
\* each active call stands at, then whether the innermost call is still to
\* scan (1) or inside its loop (0); before the call and after the return the
\* path is one number below, respectively above, every loop position
Rank ==
    CASE pc = "idle" -> <<0>>
      [] pc = "filled" -> <<SIZE + 2>>
      [] pc = "pass1" -> <<SIZE + 2, 1>>
      [] pc = "pass2" -> <<SIZE + 2, 2>>
      [] pc = "done" -> <<SIZE + 3>>
      [] OTHER ->
            [i \in 1 .. Len(stack) |->
                IF op \in GenOps THEN stack[i].at ELSE stack[i].num]
            \o <<IF pc = "call" THEN 1 ELSE 0>>

\* s comes before t in the lexicographic order (a proper prefix comes first)
LexLess(s, t) ==
    LET short == IF Len(s) < Len(t) THEN Len(s) ELSE Len(t)
        i == Min({j \in 1 .. short : s[j] # t[j]} \cup {short + 1})
    IN  IF i <= short THEN s[i] < t[i] ELSE Len(s) < Len(t)

\* paths are at most one frame per cell long and hold loop positions only
RankBounded ==
    /\ Len(Rank) <= SIZE * SIZE + 1
    /\ \A i \in 1 .. Len(Rank) : Rank[i] \in 0 .. (SIZE + 3)

Advances == LexLess(Rank, Rank') /\ RankBounded'

----------------------------------------------------------------------------
(* Claims                                                                  *)

\* C1: whenever solveSudoku returns true, the grid it leaves is a solution
\* of its input: it is solved (isBoardSolved) and keeps every given cell.
C1_TrueMeansSolved ==
    (op = "solveSudoku" /\ pc = "done" /\ ret = TRUE) =>
        /\ isBoardSolved(board)
        /\ Extends(board, input)

\* C3: on a grid that already holds a conflict, solveSudoku writes no digit
\* and returns false.
C3_ConflictRejected ==
    (op = "solveSudoku" /\ ~NoDuplicate(input)) =>
        /\ wrote = 0
        /\ (pc = "done" => ret = FALSE)

\* C2: on a grid without a duplicate, solveSudoku and isSolvable terminate and
\* return true exactly when the grid has a valid completion; isSolvable leaves
\* its argument as it was.  Termination: every step advances the search in
\* the lexicographic order of Rank, whose values are finitely many, and until
\* the function has returned the guard of one of its steps holds.
C2_Result ==
    (op \in SolveOps /\ pc = "done" /\ NoDuplicate(input)) =>
        /\ ret = HasCompletion(input)
        /\ (op = "isSolvable" => board = input)

C2_SolvableIffCompletion ==
    /\ [] C2_Result
    /\ [][Advances]_vars
    /\ [](pc \in {"idle", "done"}
            \/ SolveFullWhen \/ SolveCellWhen \/ SolvePlaceWhen \/ SolveFailWhen)

\* C2's cases: both answers are given after the search went back on a digit,
\* and isSolvable gave one
C2_Witness ==
    /\ op = "isSolvable" /\ pc = "done" /\ NoDuplicate(input)
    /\ ret = FALSE /\ wrote > 0

\* C4: generateCompleteSudoku, started on the empty grid, terminates whatever
\* the shuffles give and returns a grid for which isBoardSolved is true.
\* Termination as for C2: every step advances Rank, and until the function
\* has returned the guard of one of its steps holds.
C4_Returned ==
    (op = "generateCompleteSudoku" /\ pc = "done") => isBoardSolved(board)

C4_FillEndsSolved ==
    /\ [] C4_Returned
    /\ [][Advances]_vars
    /\ [](pc \in {"idle", "done"} \/ FillPlaceWhen \/ FillFailWhen)

\* C4's case: the fill has returned after at least one call had to give up
C4_Witness ==
    /\ op = "generateCompleteSudoku" /\ pc = "done"
    /\ rng > (SIZE * SIZE) * Draws(OneToNine)

----------------------------------------------------------------------------
(* Claims about the generator                                              *)

\* the number of clues of a puzzle
Clues(b) == Cardinality({c \in Cells : b[c[1]][c[2]] # Null})

InRange(n, range) == range.min <= n /\ n <= range.max

BoxReturned == op = "generateSudokuPuzzle" /\ pc = "done"
SymReturned == op = "generateSymmetricPuzzle" /\ pc = "done"

C6_BoxPerBoxInRange ==
    BoxReturned =>
        \A boxRow \in BoxIdx : \A boxCol \in BoxIdx :
            InRange(countFilledInBox(puzzle, boxRow, boxCol),
                    getBoxConstraints(difficulty))

\* C6's case: a returned puzzle with a box at its floor and a box at its cap
C6_Witness ==
    /\ BoxReturned
    /\ \E boxRow \in BoxIdx : \E boxCol \in BoxIdx :
          countFilledInBox(puzzle, boxRow, boxCol) = getBoxConstraints(difficulty).min
    /\ \E boxRow \in BoxIdx : \E boxCol \in BoxIdx :
          countFilledInBox(puzzle, boxRow, boxCol) = getBoxConstraints(difficulty).max

\* C7: the puzzle generateSymmetricPuzzle returns has a clue count inside its
\* difficulty's global range.
C7_SymTotalInRange ==
    SymReturned => InRange(Clues(puzzle), getCluesRange(difficulty))

\* C8: every box of the puzzle generateSymmetricPuzzle returns has a clue
\* count inside its difficulty's per-box range.
C8_SymPerBoxInRange ==
    SymReturned =>
        \A boxRow \in BoxIdx : \A boxCol \in BoxIdx :
            InRange(countFilledInBox(puzzle, boxRow, boxCol),
                    getBoxConstraints(difficulty))

\* C9: in the puzzle generateSymmetricPuzzle returns, cell (r, c) is empty
\* exactly when cell (8 - r, 8 - c) is, and the centre cell (4, 4) is a clue.
C9_SymBlanksSymmetric ==
    SymReturned =>
        /\ \A c \in Cells :
              (puzzle[c[1]][c[2]] = Null) <=> (puzzle[8 - c[1]][8 - c[2]] = Null)
        /\ puzzle[4][4] # Null

\* C9's case: a returned puzzle with cells removed, some skipped for a full box
C9_Witness ==
    /\ SymReturned
    /\ totalRemoved = targetEmpty
    /\ \E c \in Cells : puzzle[c[1]][c[2]] = Null /\ puzzle[8 - c[1]][8 - c[2]] = Null
    /\ \E boxRow \in BoxIdx : \E boxCol \in BoxIdx :
          boxRemovals[boxRow][boxCol] >= maxRemovedPerBox(difficulty)

----------------------------------------------------------------------------
(* Claims about hasUniqueSolution                                          *)

\* C10: hasUniqueSolution returns true exactly when its argument has exactly
\* one valid completion (false for no completion, a grid that already holds a
\* conflict included, and false for two or more), and it leaves its argument
\* as it was.
C10_UniqueIffOneCompletion ==
    op = "hasUniqueSolution" =>
        /\ board = input
        /\ (pc = "done" => ret = HasOneCompletion(input))

----------------------------------------------------------------------------
(* Claims about the round trip                                             *)

\* C11: every clue of a generated puzzle is the cell of the complete grid it
\* was cut from; solveSudoku on the puzzle returns true and leaves a grid for
\* which isBoardValid is true; and whenever hasUniqueSolution of the puzzle is
\* true, the solved grid is the complete grid cell for cell.
C11_RoundTrip ==
    /\ (op \in {"generateSudokuPuzzle", "generateSymmetricPuzzle"} /\ pc = "done")
          => Extends(board, puzzle)
    /\ (op = "solveSudoku" /\ pc = "done")
          => (ret = TRUE /\ isBoardValid(board) /\ Extends(complete, puzzle))
    /\ (op = "hasUniqueSolution" /\ pc = "done" /\ ret = TRUE)
          => board = complete

\* C11's case: a generated puzzle was solved after going back on some digit,
\* hasUniqueSolution said true, and the solved grid is the complete grid
C11_Witness ==
    /\ op = "hasUniqueSolution" /\ pc = "done" /\ ret = TRUE
    /\ totalRemoved > 0 /\ wrote > totalRemoved
    /\ board = complete /\ puzzle # complete

----------------------------------------------------------------------------
(* Claims about the validator                                              *)

\* C12: isValidMove returns true exactly when no cell other than (row, col)
\* of the same row, column or box holds num; what (row, col) itself holds
\* never changes the result; on the empty grid the result is always true.
C12_ValidIffNoPeerHolds ==
    (op = "isValidMove" /\ pc = "done") =>
        LET row == stack[1].row
            col == stack[1].col
            num == stack[1].num
        IN  /\ ret = (\A d \in PeersOf[<<row, col>>] : board[d[1]][d[2]] # num)
            /\ \A v \in Digits \cup {Null} :
                  isValidMove(SetCell(board, row, col, v), row, col, num) = ret
            /\ (board = EmptyBoard => ret = TRUE)
            /\ board = input

\* C12's case: a cell that holds num itself, and the move is still valid
C12_Witness ==
    /\ op = "isValidMove" /\ pc = "done" /\ ret = TRUE
    /\ board[stack[1].row][stack[1].col] = stack[1].num
    /\ board # EmptyBoard

\* the cells a conflict list names
Listed(conflicts) == {conflicts[k] : k \in 1 .. Len(conflicts)}

\* C13: B is in findConflicts(A) exactly when A is in findConflicts(B) (for
\* all pairs of distinct cells: whenever B is in the list of A, A is in the
\* list of B); findConflicts(A) names every other cell of A's row, column or
\* box that holds A's non-empty value; findAllConflicts then has an entry for
\* both cells of the pair, and isBoardValid is false.
C13_ConflictsSymmetric ==
    LET conf == [c \in Cells |-> findConflicts(board, c[1], c[2])]
        named == [c \in Cells |-> Listed(conf[c])]
        same(A, B) == board[A[1]][A[2]] # Null
                      /\ board[B[1]][B[2]] = board[A[1]][A[2]]
    IN  /\ (op = "findAllConflicts" /\ pc = "done") =>
              \A A \in Cells :
                 /\ \A B \in named[A] \ {A} : A \in named[B]
                 /\ \A B \in PeersOf[A] :
                       same(A, B) =>
                          /\ B \in named[A]
                          /\ Key(A[1], A[2]) \in DOMAIN ret
                          /\ Key(B[1], B[2]) \in DOMAIN ret
                          /\ ret[Key(A[1], A[2])] = conf[A]
        /\ (op = "isBoardValid" /\ pc = "done") =>
              ((\E A \in Cells : \E B \in PeersOf[A] : same(A, B)) => ret = FALSE)

\* C13's case: a cell with conflicts in more than one of its units, mutually
\* listed, in a map of several entries
C13_Witness ==
    /\ op = "findAllConflicts" /\ pc = "done"
    /\ Cardinality(DOMAIN ret) >= 3
    /\ \E A \in Cells :
          /\ Len(findConflicts(board, A[1], A[2])) >= 2
          /\ \E B \in Listed(findConflicts(board, A[1], A[2])) \ {A} :
                A \in Listed(findConflicts(board, B[1], B[2]))

----------------------------------------------------------------------------
(* Claims about getNextHint                                                *)

\* C14: getNextHint leaves the board as it was; it returns null when
\* solveSudoku failed on the copy or the board has no empty cell, and
\* otherwise the row-major first empty cell of the board with the digit the
\* solved copy holds there.
C14_HintIsFirstEmpty ==
    (op = "getNextHint") =>
        /\ board = input
        /\ (pc = "done" =>
              hint = IF ~ret \/ ~HasEmpty(input) THEN NoHint
                     ELSE LET cell == FirstEmpty(input)
                          IN  [row |-> cell[1], col |-> cell[2],
                               value |-> testBoard[cell[1]][cell[2]]])

\* C14's case: a hint for a board with several empty cells, found by a search
\* that went back on a digit
C14_Witness ==
    /\ op = "getNextHint" /\ pc = "done" /\ hint # NoHint
    /\ Cardinality(EmptyCells(input)) >= 2
    /\ wrote > Cardinality(EmptyCells(input))
    /\ hint.value \in Digits

----------------------------------------------------------------------------
(* Claims about generateBalancedPuzzle                                     *)

BalancedReturned == op = "generateBalancedPuzzle" /\ pc = "done"

\* C15: the puzzle generateBalancedPuzzle returns has no 3 x 3 box that is
\* completely filled.
C15_NoCompleteBox ==
    BalancedReturned =>
        \A boxRow \in BoxIdx : \A boxCol \in BoxIdx :
            countFilledInBox(puzzle, boxRow, boxCol) < BOX * BOX

\* no attempt of generateBalancedPuzzle is ever rejected: the puzzle of the
\* first call passes the full-box check, so the loop runs once and the
\* fallback after it is never taken
BalancedNeverRetries ==
    /\ attempts = 0 /\ calls <= 1
    /\ (pc = "check" => ~hasCompleteBox(puzzle))

\* C15's case: a puzzle was returned, one of its boxes as full as the
\* difficulty allows
C15_Witness ==
    /\ BalancedReturned
    /\ totalRemoved = targetEmpty /\ Clues(puzzle) < SIZE * SIZE
    /\ \E boxRow \in BoxIdx : \E boxCol \in BoxIdx :
          countFilledInBox(puzzle, boxRow, boxCol) = getBoxConstraints(difficulty).max

----------------------------------------------------------------------------
(* Claims about what a failed search leaves behind                         *)

\* C19: when solveSudoku returns false, the grid is cell for cell the grid
\* that was passed in: every digit the search placed has been removed again
\* and no given cell was touched.
C19_FalseLeavesInput ==
    (op = "solveSudoku" /\ pc = "done" /\ ~ret) => board = input

\* C19's case: solveSudoku returned false after it had placed digits
C19_Witness ==
    /\ op = "solveSudoku" /\ pc = "done" /\ ~ret
    /\ wrote > 1
    /\ HasEmpty(input)

----------------------------------------------------------------------------
(* Claims about the SudokuBoard component                                  *)

\* C16: under every interleaving of user events and timer callbacks, every
\* cell marked fixed is non-empty and holds the clue it had when the current
\* puzzle was loaded, and the fixed mask changes only when a puzzle is loaded
\* or the board is fully cleared (so it is always the mask of the puzzle
\* last loaded, or empty after Clear All).
C16_FixedCellsKeepClues ==
    \A cell \in Cells :
        /\ fixedCells[cell[1]][cell[2]] = (loaded[cell[1]][cell[2]] # Null)
        /\ fixedCells[cell[1]][cell[2]] =>
              /\ boardState[cell[1]][cell[2]] # Null
              /\ boardState[cell[1]][cell[2]] = loaded[cell[1]][cell[2]]

\* C17: when a smart hint is accepted, the resulting board differs from the
\* board that was current at the moment of acceptance in at most the hinted
\* cell.
C17_HintChangesOneCell ==
    accepted.hint # NoHint =>
        \A cell \in Cells :
            cell # <<accepted.hint.row, accepted.hint.col>> =>
                accepted.after[cell[1]][cell[2]] = accepted.before[cell[1]][cell[2]]

============================================================================
